---- MODULE Spec2Model ----
(***************************************************************************)
(* Model of the albert-readeck plugin (src/__init__.py): the background    *)
(* LinkFetcherThread, the refresh cycle Plugin.fetchIndexItems with its    *)
(* pager Plugin._get_links, the cache_length setter that restarts the      *)
(* thread, and the actions run on the host's main thread (manual refresh,  *)
(* archive).                                                               *)
(*                                                                         *)
(* Execution contexts: context 0 is the host's main thread (it runs the    *)
(* setters and the item actions, one handler at a time); contexts 1..N are *)
(* the LinkFetcherThread instances created over the plugin's lifetime.     *)
(***************************************************************************)
EXTENDS Integers, Sequences, FiniteSets, TLC

\* ---------------------------------------------------------------- bounds
\* LinkFetcherThread instances that may be created (1 by __init__, the rest
\* by the cache_length setter)
MaxThreads == 2
\* refresh cycles that may begin in one behaviour
MaxCycles == 2
\* page requests that may end in an exception in one behaviour
MaxAborts == 1
\* records in one full page of the bookmark list
MaxPageRecs == 1
\* largest Total-Count header value the server reports
MaxTotal == 250
MaxLabels == 2
MaxItems == 2

\* ------------------------------------------------------ program constants
\* Plugin.limit
limit == 100
\* `total = 1` before the first page, and the default of headers.get
DefaultTotal == 1

Main == 0
Threads == 1..MaxThreads
Ctx == {Main} \cup Threads

\* header value of a response that carries no Total-Count
NoTotal == -1
TotalCounts == {limit, MaxTotal}

VARIABLES
    index_items,   \* Plugin._index_items, the accumulator shared by all cycles
    index,         \* the items last handed to setIndexItems (what queries see)
    cache_length,  \* Plugin._cache_length, in minutes
    interval,      \* LinkFetcherThread.__cache_length of each instance, seconds
    instance_url,  \* Plugin._instance_url
    api_key,       \* Plugin._api_key
    cur,           \* Plugin._thread: the id of the current LinkFetcherThread
    tpc,           \* position of each LinkFetcherThread in run()
    stop_event,    \* LinkFetcherThread.__stop_event of each instance
    mpc,           \* position of the main thread
    patch,         \* outcome of the request of the running item action
    sent,          \* the item action that was triggered and the request it sent
    cyc,           \* per context: the locals of the running fetchIndexItems
    nCycles,       \* refresh cycles begun so far
    nAborts        \* page requests that ended in an exception so far

vars == <<index_items, index, cache_length, interval, instance_url, api_key,
          cur, tpc, stop_event, mpc, patch, sent, cyc, nCycles, nAborts>>

\* locals of _get_links at its start (lines 186-190), no cycle running; id
\* numbers the cycle, and requests, fetched and batch record what the cycle
\* asked for, was given and handed to setIndexItems; first records the total
\* the first 2xx page reported, shifted that a later 2xx page reported
\* another one; headers is the api key in the headers built at line 188,
\* urls and keys record the instance url and the api key of every request
Blank ==
    [phase |-> "none", id |-> 0, offset |-> 0, total |-> DefaultTotal,
     response_headers |-> FALSE, fetched |-> <<>>, requests |-> <<>>,
     failed |-> FALSE, batch |-> <<>>, first |-> NoTotal, shifted |-> FALSE,
     headers |-> "", urls |-> {}, keys |-> {}]

\* no item action is running
NoRequest == [trigger |-> "none", method |-> "none"]

\* Thread.is_alive(): started and run() has not returned or raised
is_alive(t) == tpc[t] \in {"first", "cycle", "wait", "call"}

\* what readConfig("cache_length", int) may return at startup: nothing
\* stored (None), or the stored integer, whatever wrote it
StoredValues == {<<>>, <<0>>, <<-1>>}

\* `self.readConfig("cache_length", int) or 15` (line 53): the default
\* replaces None and 0, every other stored value is taken as it is
ReadCacheLength(stored) ==
    IF stored = <<>> \/ stored[1] = 0 THEN 15 ELSE stored[1]

\* LinkFetcherThread.__init__, line 26: the interval in seconds
ThreadInterval(minutes) == minutes * 60

\* the state after Plugin.__init__ (lines 45-56): empty accumulator, the
\* stored or default interval, thread 1 created with it and started
Init ==
    /\ index_items = <<>>
    /\ index = <<>>
    /\ \E stored \in StoredValues : cache_length = ReadCacheLength(stored)
    /\ interval = [t \in Threads |->
                      IF t = 1 THEN ThreadInterval(cache_length) ELSE 0]
    /\ instance_url = "http://localhost:8000"
    /\ api_key = ""
    /\ cur = 1
    /\ tpc = [t \in Threads |-> IF t = 1 THEN "first" ELSE "unused"]
    /\ stop_event = [t \in Threads |-> FALSE]
    /\ mpc = "idle"
    /\ patch = "none"
    /\ sent = NoRequest
    /\ cyc = [c \in Ctx |-> Blank]
    /\ nCycles = 0
    /\ nAborts = 0

\* ------------------------------------------------------- the remote server
\* the links of the page a cycle gets at an offset: n links, each tagged
\* with the cycle that fetched it, the offset of its page and its position
\* in the page
Payload(id, offset, n) == [i \in 1..n |-> <<id, offset, i>>]

\* what requests.get can do (line 194): a 2xx response with a page and a
\* Total-Count header (or none), a non-2xx response, or an exception
\* (ConnectionError, Timeout)
Responses ==
    [kind : {"ok"}, total : TotalCounts \cup {NoTotal}, n : {MaxPageRecs}]
    \cup [kind : {"remote", "transport"}, total : {NoTotal}, n : {0}]

\* -------------------------------------------------------------- _get_links
\* a loop that stops one page early when the offset reaches the total
LoopCondStrict(offset, total) == offset < total

\* `while offset <= total` (line 191)
LoopCond(offset, total) == offset <= total

\* line 193: the url of each request is built from self._instance_url as it
\* is when the request is made
RequestUrl(l) == instance_url

\* line 188: the headers are built once, from self._api_key as it is when
\* the generator starts, and sent with every request (line 194)
RequestHeaders(l) == IF l.requests = <<>> THEN api_key ELSE l.headers

\* a pager that takes the total from every successful page
CaptureAlways(l, resp) ==
    IF resp.total = NoTotal THEN DefaultTotal ELSE resp.total

\* a pager that asks for the same page again
SameOffset(offset) == offset

\* `offset += self.limit` (line 200)
NextOffset(offset) == offset + limit

\* lines 196-198: the first successful page sets total from its Total-Count
\* header, 1 when the header is absent; later pages leave it alone
CaptureTotal(l, resp) ==
    IF ~l.response_headers
    THEN (IF resp.total = NoTotal THEN DefaultTotal ELSE resp.total)
    ELSE l.total

\* ---------------------------------------------------------- fetchIndexItems
\* the call of fetchIndexItems by context c (lines 116-117, 186-190): a new
\* generator with offset 0 and total 1; the first loop test 0 <= 1 passes
BeginCycle(c) ==
    /\ nCycles < MaxCycles
    /\ nCycles' = nCycles + 1
    /\ cyc' = [cyc EXCEPT ![c] =
                  [Blank EXCEPT !.phase = "page", !.id = nCycles + 1]]

\* fetchIndexItems returns to its caller: the main thread's handler ends,
\* run() goes on to the wait of line 31
Return(c) ==
    IF c = Main
    THEN /\ mpc' = "idle" /\ patch' = "none" /\ sent' = NoRequest
         /\ UNCHANGED tpc
    ELSE /\ tpc' = [tpc EXCEPT ![c] = "wait"]
         /\ UNCHANGED <<mpc, patch, sent>>

\* an exception leaves fetchIndexItems: nothing in the plugin catches it, so
\* on a LinkFetcherThread it ends run(), on the main thread it ends the handler
Raise(c) ==
    IF c = Main
    THEN /\ mpc' = "idle" /\ patch' = "none" /\ sent' = NoRequest
         /\ UNCHANGED tpc
    ELSE /\ tpc' = [tpc EXCEPT ![c] = "exited"]
         /\ UNCHANGED <<mpc, patch, sent>>

\* what the loop of _get_links does after a page: the next page while the
\* loop condition holds, otherwise the generator ends and fetchIndexItems
\* goes on to updateIndexItems
AfterPage(offset, total) ==
    IF LoopCond(offset, total) THEN "page" ELSE "replace"

\* one iteration of the loop of _get_links (lines 192-204) together with the
\* for loop of fetchIndexItems that consumes the yielded page (lines 118-121):
\* the request; on a 2xx response the total is captured, the offset advances
\* and every link of the page is appended to the shared self._index_items; on
\* a non-2xx response the loop breaks; an exception of requests.get leaves
\* fetchIndexItems with the accumulator as it is. The request itself touches
\* nothing the cycles share, so it is one step with the appends that follow:
\* other contexts interleave between pages, and between the last page, the
\* replace and the reset
get_links_page(c) ==
    /\ cyc[c].phase = "page"
    /\ \E resp \in Responses :
        LET l == cyc[c]
            asked == Append(l.requests, l.offset)
            headers == RequestHeaders(l)
            urls == l.urls \cup {RequestUrl(l)}
            keys == l.keys \cup {headers}
            page == Payload(l.id, l.offset, resp.n)
            total == CaptureTotal(l, resp)
        IN  CASE resp.kind = "ok" ->
                   /\ cyc' = [cyc EXCEPT ![c] =
                        [l EXCEPT !.total = total,
                                  !.response_headers = TRUE,
                                  !.offset = NextOffset(l.offset),
                                  !.headers = headers,
                                  !.urls = urls,
                                  !.keys = keys,
                                  !.fetched = l.fetched \o page,
                                  !.requests = asked,
                                  !.first = IF l.requests = <<>>
                                            THEN resp.total ELSE l.first,
                                  !.shifted = \/ l.shifted
                                              \/ /\ l.requests # <<>>
                                                 /\ resp.total # NoTotal
                                                 /\ resp.total # l.first,
                                  !.phase =
                                      AfterPage(NextOffset(l.offset), total)]]
                   /\ index_items' = index_items \o page
                   /\ UNCHANGED <<tpc, mpc, patch, sent, nAborts>>
              [] resp.kind = "remote" ->
                   /\ cyc' = [cyc EXCEPT ![c] =
                        [l EXCEPT !.requests = asked, !.failed = TRUE,
                                  !.headers = headers,
                                  !.urls = urls,
                                  !.keys = keys,
                                  !.phase = "replace"]]
                   /\ UNCHANGED <<index_items, tpc, mpc, patch, sent,
                                  nAborts>>
              [] resp.kind = "transport" ->
                   /\ nAborts < MaxAborts
                   /\ nAborts' = nAborts + 1
                   /\ cyc' = [cyc EXCEPT ![c] = Blank]
                   /\ Raise(c)
                   /\ UNCHANGED index_items
    /\ UNCHANGED <<index, cache_length, interval, instance_url, api_key, cur,
                   stop_event, nCycles>>

\* updateIndexItems (lines 112-113, called at 122): setIndexItems copies the
\* list self._index_items refers to at that moment into the host's index
updateIndexItems(c) ==
    /\ cyc[c].phase = "replace"
    /\ index' = index_items
    /\ cyc' = [cyc EXCEPT ![c] =
                  [@ EXCEPT !.phase = "reset", !.batch = index_items]]
    /\ UNCHANGED <<index_items, cache_length, interval, instance_url, api_key,
                   cur, tpc, stop_event, mpc, patch, sent, nCycles, nAborts>>

\* `self._index_items = []` and the return (line 124)
fetchIndexItems_reset(c) ==
    /\ cyc[c].phase = "reset"
    /\ index_items' = <<>>
    /\ cyc' = [cyc EXCEPT ![c] = Blank]
    /\ Return(c)
    /\ UNCHANGED <<index, cache_length, interval, instance_url, api_key, cur,
                   stop_event, nCycles, nAborts>>

\* -------------------------------------------------------- LinkFetcherThread
\* a run() that waits for the interval before its first callback
run_first_delayed(t) ==
    /\ tpc[t] = "first"
    /\ tpc' = [tpc EXCEPT ![t] = "wait"]
    /\ UNCHANGED <<index_items, index, cache_length, interval, instance_url,
                   api_key, cur, stop_event, mpc, patch, sent, cyc, nCycles,
                   nAborts>>

\* run(), line 29: the first callback, made without looking at the stop event
run_first(t) ==
    /\ tpc[t] = "first"
    /\ BeginCycle(t)
    /\ tpc' = [tpc EXCEPT ![t] = "cycle"]
    /\ UNCHANGED <<index_items, index, cache_length, interval, instance_url,
                   api_key, cur, stop_event, mpc, patch, sent, nAborts>>

\* run(), lines 31-32: the wait ends by its timeout and is_set() is false
run_wait_timeout(t) ==
    /\ tpc[t] = "wait"
    /\ ~stop_event[t]
    /\ tpc' = [tpc EXCEPT ![t] = "call"]
    /\ UNCHANGED <<index_items, index, cache_length, interval, instance_url,
                   api_key, cur, stop_event, mpc, patch, sent, cyc, nCycles,
                   nAborts>>

\* run(), lines 31-33: the event is set, the wait ends and run() returns
run_wait_stop(t) ==
    /\ tpc[t] = "wait"
    /\ stop_event[t]
    /\ tpc' = [tpc EXCEPT ![t] = "exited"]
    /\ UNCHANGED <<index_items, index, cache_length, interval, instance_url,
                   api_key, cur, stop_event, mpc, patch, sent, cyc, nCycles,
                   nAborts>>

\* run(), line 34: the callback after a wait that saw no stop
run_callback(t) ==
    /\ tpc[t] = "call"
    /\ BeginCycle(t)
    /\ tpc' = [tpc EXCEPT ![t] = "cycle"]
    /\ UNCHANGED <<index_items, index, cache_length, interval, instance_url,
                   api_key, cur, stop_event, mpc, patch, sent, nAborts>>

\* stop(), lines 36-37
stop(t) == stop_event' = [stop_event EXCEPT ![t] = TRUE]

\* ------------------------------------------- handlers run on the main thread
\* the "Refresh cache index" item's action (line 140): fetchIndexItems()
refresh ==
    /\ mpc = "idle"
    /\ BeginCycle(Main)
    /\ mpc' = "cycle"
    /\ UNCHANGED <<patch, sent, index_items, index, cache_length, interval,
                   instance_url, api_key, cur, tpc, stop_event, nAborts>>

\* what requests.patch can do (line 220): a 2xx response, a non-2xx
\* response, or an exception
PatchResults == {"ok", "remote", "raised"}

\* the item actions that change a bookmark (_gen_item, lines 162-163)
Triggers == {"archive", "delete"}

\* the method each action is bound to: the lambdas of lines 162 and 163 both
\* call self._archive_bookmark
Handler(trigger) == "_archive_bookmark"

\* the request a handler sends: requests.delete in _delete_bookmark (line
\* 210), requests.patch with is_archived in _archive_bookmark (line 220)
Method(handler) == IF handler = "_delete_bookmark" THEN "DELETE" ELSE "PATCH"

\* an item action is triggered and its handler sends its request
\* (_archive_bookmark, lines 216-220), with the outcome of the request
archive_bookmark ==
    /\ mpc = "idle"
    /\ mpc' = "patch"
    /\ \E resp \in PatchResults : patch' = resp
    /\ \E trigger \in Triggers :
        sent' = [trigger |-> trigger, method |-> Method(Handler(trigger))]
    /\ UNCHANGED <<index_items, index, cache_length, interval, instance_url,
                   api_key, cur, tpc, stop_event, cyc, nCycles, nAborts>>

\* a handler that refreshes whatever the response was
archive_refreshes_always(resp) == TRUE

\* `if response.ok` (line 221)
archive_refreshes(resp) == resp = "ok"

\* _archive_bookmark, lines 221-224: fetchIndexItems() if the response is
\* ok, otherwise a warning; an exception of requests.patch has left the
\* handler before
archive_response ==
    /\ mpc = "patch"
    /\ IF archive_refreshes(patch)
       THEN /\ BeginCycle(Main) /\ mpc' = "cycle"
            /\ UNCHANGED <<patch, sent>>
       ELSE /\ mpc' = "idle" /\ patch' = "none" /\ sent' = NoRequest
            /\ UNCHANGED <<cyc, nCycles>>
    /\ UNCHANGED <<index_items, index, cache_length, interval, instance_url,
                   api_key, cur, tpc, stop_event, nAborts>>

\* values the host's spinbox may assign to cache_length
CacheValues == {-1, 0, 1}

\* `value = 1 if value < 1 else value` (line 89)
Clamp(value) == IF value < 1 THEN 1 ELSE value

\* cache_length setter, lines 89-92: clamp, store, write the config
cache_length_assign ==
    /\ mpc = "idle"
    /\ cur < MaxThreads
    /\ \E value \in CacheValues : cache_length' = Clamp(value)
    /\ mpc' = "set_alive"
    /\ UNCHANGED <<interval, instance_url, api_key, patch, sent, index_items,
                   index, cur, tpc, stop_event, cyc, nCycles, nAborts>>

\* cache_length setter, lines 94-95: stop the current thread if it is alive
cache_length_stop ==
    /\ mpc = "set_alive"
    /\ IF is_alive(cur)
       THEN stop(cur) /\ mpc' = "set_join"
       ELSE UNCHANGED stop_event /\ mpc' = "set_create"
    /\ UNCHANGED <<patch, sent, index_items, index, cache_length, interval,
                   instance_url, api_key, cur, tpc, cyc, nCycles, nAborts>>

\* a join that returns while run() is still going
joined_nowait(t) == TRUE

\* Thread.join() returns once run() has ended
joined(t) == ~is_alive(t)

\* cache_length setter, line 96: join blocks until the old thread has ended
cache_length_join ==
    /\ mpc = "set_join"
    /\ joined(cur)
    /\ mpc' = "set_create"
    /\ UNCHANGED <<patch, sent, index_items, index, cache_length, interval,
                   instance_url, api_key, cur, tpc, stop_event, cyc, nCycles,
                   nAborts>>

\* cache_length setter, lines 97-98: a new LinkFetcherThread replaces
\* self._thread and is started; the thread object it replaces, joined by
\* then, is dropped together with its interval
cache_length_start ==
    /\ mpc = "set_create"
    /\ cur' = cur + 1
    /\ tpc' = [tpc EXCEPT ![cur + 1] = "first"]
    /\ interval' = [t \in Threads |->
                        IF t = cur + 1 THEN ThreadInterval(cache_length)
                        ELSE 0]
    /\ UNCHANGED <<instance_url, api_key>>
    /\ mpc' = "idle"
    /\ UNCHANGED <<patch, sent, index_items, index, cache_length, stop_event,
                   cyc, nCycles, nAborts>>

\* values the host's line edit may assign to instance_url
InstanceUrls == {"http://localhost:8000", "http://other:8000"}

\* values the host's line edit may assign to api_key
ApiKeys == {"", "key"}

\* instance_url setter (lines 69-72), on the main thread
instance_url_assign ==
    /\ mpc = "idle"
    /\ \E value \in InstanceUrls : instance_url' = value
    /\ UNCHANGED <<index_items, index, cache_length, interval, api_key, cur,
                   tpc, stop_event, mpc, patch, sent, cyc, nCycles, nAborts>>

\* api_key setter (lines 78-81), on the main thread
api_key_assign ==
    /\ mpc = "idle"
    /\ \E value \in ApiKeys : api_key' = value
    /\ UNCHANGED <<index_items, index, cache_length, interval, instance_url,
                   cur, tpc, stop_event, mpc, patch, sent, cyc, nCycles,
                   nAborts>>

\* __del__, line 59
del_stop ==
    /\ mpc = "idle"
    /\ stop(cur)
    /\ mpc' = "del_join"
    /\ UNCHANGED <<patch, sent, index_items, index, cache_length, interval,
                   instance_url, api_key, cur, tpc, cyc, nCycles, nAborts>>

\* __del__, line 60; the plugin is gone afterwards
del_join ==
    /\ mpc = "del_join"
    /\ joined(cur)
    /\ mpc' = "deleted"
    /\ UNCHANGED <<patch, sent, index_items, index, cache_length, interval,
                   instance_url, api_key, cur, tpc, stop_event, cyc, nCycles,
                   nAborts>>

Next ==
    \/ \E t \in Threads : run_first(t)
    \/ \E t \in Threads : run_wait_timeout(t)
    \/ \E t \in Threads : run_wait_stop(t)
    \/ \E t \in Threads : run_callback(t)
    \/ \E c \in Ctx : get_links_page(c)
    \/ \E c \in Ctx : updateIndexItems(c)
    \/ \E c \in Ctx : fetchIndexItems_reset(c)
    \/ refresh
    \/ archive_bookmark
    \/ archive_response
    \/ cache_length_assign
    \/ cache_length_stop
    \/ cache_length_join
    \/ cache_length_start
    \/ del_stop
    \/ del_join

Spec == Init /\ [][Next]_vars

\* the plugin with its instance url and api key edited while it runs
NextConfig ==
    \/ Next
    \/ instance_url_assign
    \/ api_key_assign

SpecConfig == Init /\ [][NextConfig]_vars

\* ------------------------------------------------- record transformation
\* Strings are sequences of characters, so that joining and prefixing are
\* computed and not assumed.
Comma == <<",">>
Star == <<"*", " ">>
Titles == {<<>>, <<"t">>}
Urls == {<<"u">>}
LabelName(k) == <<"a", k>>
LabelLists == {[k \in 1..n |-> LabelName(k)] : n \in 0..MaxLabels}
Bookmarks ==
    [title : Titles, url : Urls, labels : LabelLists, is_marked : BOOLEAN]

RECURSIVE Join(_, _)
Join(sep, parts) ==
    IF parts = <<>> THEN <<>>
    ELSE IF Len(parts) = 1 THEN parts[1]
    ELSE parts[1] \o sep \o Join(sep, Tail(parts))

create_filters(item) ==
    Join(Comma, <<item.url, item.title, Join(Comma, item.labels)>>)

TitleOnly(bookmark) == bookmark.title
TitleOrUrl(bookmark) ==
    IF bookmark.title # <<>> THEN bookmark.title ELSE bookmark.url

gen_item(bookmark) ==
    [text    |-> IF bookmark.is_marked THEN Star \o TitleOrUrl(bookmark)
                 ELSE TitleOrUrl(bookmark),
     subtext |-> Join(Comma, bookmark.labels) \o <<":", " ">> \o bookmark.url]

IndexItem(link) ==
    [link |-> link, item |-> gen_item(link), string |-> create_filters(link)]

InitTransform ==
    /\ index_items = <<>>
    /\ index = <<>>
    /\ cache_length = 15
    /\ interval = [t \in Threads |-> 0]
    /\ instance_url = "http://localhost:8000"
    /\ api_key = ""
    /\ cur = 0
    /\ tpc = [t \in Threads |-> "unused"]
    /\ stop_event = [t \in Threads |-> FALSE]
    /\ mpc = "idle"
    /\ patch = "none"
    /\ sent = NoRequest
    /\ cyc = [c \in Ctx |-> Blank]
    /\ nCycles = 0
    /\ nAborts = 0

\* fetchIndexItems, lines 120-122: one link is transformed and appended.
append_item ==
    /\ Len(index_items) < MaxItems
    /\ \E link \in Bookmarks :
           index_items' = Append(index_items, IndexItem(link))
    /\ UNCHANGED <<index, cache_length, interval, instance_url, api_key, cur,
                   tpc, stop_event, mpc, patch, sent, cyc, nCycles, nAborts>>

NextTransform == append_item

SpecTransform == InitTransform /\ [][NextTransform]_vars

\* ------------------------------------------------------------------ claims
Alive == {t \in Threads : is_alive(t)}

\* context c has handed its batch to setIndexItems and not yet returned
Replaced(c) == cyc[c].phase = "reset"

\* C1: with no cycle ever aborted, every batch handed to setIndexItems is
\* exactly what the cycle that hands it over has fetched, in fetch order:
\* nothing of a concurrent cycle in it and nothing of its own missing.
C1_BatchIsOneCycle ==
    nAborts = 0 =>
        \A c \in Ctx : Replaced(c) => cyc[c].batch = cyc[c].fetched

\* C2: no failure of a cycle ends the timer loop: a LinkFetcherThread whose
\* run() has ended is one that stop() was called on.
C2_LoopSurvivesFailure ==
    \A t \in Threads : tpc[t] = "exited" => stop_event[t]

\* C3: a refresh cycle never throws: whenever the pagination of a cycle
\* ends, the cycle goes on to its replace step.
C3_CycleNeverThrows ==
    [][\A c \in Ctx :
          (cyc[c].phase = "page" /\ cyc'[c].phase # "page")
              => cyc'[c].phase = "replace"]_vars

\* C4: at most one timer loop is alive at any moment and it is the plugin's
\* current one; the setter creates the new thread only when the old one has
\* ended, and when the setter returns exactly the new loop is alive.
C4_OneLoop ==
    /\ [](/\ Cardinality(Alive) <= 1
          /\ Alive \subseteq {cur}
          /\ (mpc = "set_create" => Alive = {}))
    /\ [][(mpc = "set_create" /\ mpc' = "idle") => Alive' = {cur'}]_vars

\* C4 witness: the setter found the first loop alive, stopped it, waited
\* for its end and started the second one.
C4_Witness ==
    /\ cur = 2
    /\ mpc = "idle"
    /\ stop_event[1]
    /\ tpc[1] = "exited"
    /\ is_alive(2)

\* C5: once stop() has been called on a thread, no refresh cycle of that
\* thread begins.
C5_NoCycleAfterStop ==
    [][\A t \in Threads :
          stop_event[t] => ~(tpc[t] # "cycle" /\ tpc'[t] = "cycle")]_vars

\* the lifecycle state of a scheduler instance
Lifecycle(t) ==
    CASE tpc[t] = "unused" -> "Idle"
      [] tpc[t] = "exited" -> "Stopped"
      [] is_alive(t) /\ stop_event[t] -> "Stopping"
      [] OTHER -> "Running"

LifecycleEdges ==
    {<<"Idle", "Running">>, <<"Running", "Stopping">>,
     <<"Stopping", "Stopped">>}

\* C6: the lifecycle of every scheduler instance moves only along
\* Idle -> Running -> Stopping -> Stopped, and a stopped instance stays
\* stopped.
C6_Lifecycle ==
    [][\A t \in Threads :
          Lifecycle(t)' # Lifecycle(t)
              => <<Lifecycle(t), Lifecycle(t)'>> \in LifecycleEdges]_vars

\* the cycles that are still fetching and accumulating
Building == {cyc[c].id : c \in {x \in Ctx : cyc[x].phase = "page"}}

\* C7: the visible index changes only at a replace step, and it never holds
\* a record of a batch that is still being built.
C7_CompleteGeneration ==
    /\ [](\A i \in DOMAIN index : index[i][1] \notin Building)
    /\ [][index' # index =>
            \E c \in Ctx : cyc[c].phase = "replace" /\ Replaced(c)']_vars

\* the multiples of limit from 0 up to total, in ascending order
ExpectedOffsets(total) ==
    [i \in 1..Cardinality({o \in 0..total : o % limit = 0}) |->
        (i - 1) * limit]

\* pagination of context c has ended with every page request answered 2xx
PagedAll(c) == cyc[c].phase \in {"replace", "reset"} /\ ~cyc[c].failed

\* C8: when every page request succeeds, the requests go to the offsets
\* 0, limit, 2*limit, ... that are <= the total count and to no other; for a
\* total of 250 they are 0, 100, 200.
C8_PageOffsets ==
    \A c \in Ctx :
        PagedAll(c) =>
            /\ cyc[c].requests = ExpectedOffsets(cyc[c].total)
            /\ (cyc[c].total = 250 => cyc[c].requests = <<0, 100, 200>>)

\* C8 witness: a pagination over a total of 250 has ended without a failure.
C8_Witness ==
    \E c \in Ctx :
        PagedAll(c) /\ cyc[c].total = 250 /\ Len(cyc[c].requests) = 3

RECURSIVE PagesOf(_, _, _)
\* the links of the first k pages that cycle id asked for
PagesOf(id, requests, k) ==
    IF k = 0 THEN <<>>
    ELSE PagesOf(id, requests, k - 1)
             \o Payload(id, requests[k], MaxPageRecs)

\* C9: when page k of a cycle fails with a non-2xx response, that request
\* is the cycle's last, and the batch the cycle hands to setIndexItems is
\* exactly the links of pages 1..k-1.
C9_PartialBatch ==
    \A c \in Ctx :
        (Replaced(c) /\ cyc[c].failed) =>
            LET k == Len(cyc[c].requests)
            IN  /\ cyc[c].requests = [i \in 1..k |-> (i - 1) * limit]
                /\ cyc[c].batch = PagesOf(cyc[c].id, cyc[c].requests, k - 1)

\* C10: the archive handler begins exactly one refresh cycle after an ok
\* response and returns when that cycle ends; after a failed call it begins
\* none and leaves the accumulator and the index as they are.
C10_ArchiveRefreshes ==
    [][/\ (mpc = "patch" /\ patch = "ok" /\ mpc' # "patch")
            => (nCycles' = nCycles + 1 /\ mpc' = "cycle"
                /\ cyc'[Main].phase = "page")
       /\ (mpc = "patch" /\ patch # "ok" /\ mpc' # "patch")
            => (nCycles' = nCycles /\ mpc' = "idle" /\ index' = index
                /\ index_items' = index_items /\ cyc' = cyc)
       /\ (mpc = "cycle" /\ mpc' # "cycle") => mpc' = "idle"]_vars

\* C10 witness: the cycle begun by a successful archive call has replaced
\* the index.
C10_Witness == mpc = "cycle" /\ patch = "ok" /\ Replaced(Main)

\* C11: the delete action sends a DELETE request and the archive action a
\* PATCH request.
C11_DeleteSendsDelete ==
    /\ (sent.trigger = "delete" => sent.method = "DELETE")
    /\ (sent.trigger = "archive" => sent.method = "PATCH")

\* C12: a started thread's first step is a refresh cycle, not a wait; a
\* thread begins a cycle only as its first step or after a wait that ended
\* with the stop event not set, and every wait follows a cycle.
C12_FirstCycleThenWaits ==
    [][\A t \in Threads :
          /\ (tpc[t] = "first" /\ tpc'[t] # "first") => tpc'[t] = "cycle"
          /\ (tpc[t] # "first" /\ tpc'[t] = "first") => tpc[t] = "unused"
          /\ (tpc[t] # "cycle" /\ tpc'[t] = "cycle")
                => tpc[t] \in {"first", "call"}
          /\ (tpc[t] # "call" /\ tpc'[t] = "call")
                => (tpc[t] = "wait" /\ ~stop_event[t])
          /\ (tpc[t] # "wait" /\ tpc'[t] = "wait") => tpc[t] = "cycle"]_vars

\* C12 witness: the only cycle so far was the thread's first one, it has
\* replaced the index, and the wait after it has ended with no stop, so the
\* thread is about to make its next callback.
C12_Witness ==
    \E t \in Threads :
        /\ tpc[t] = "call"
        /\ ~stop_event[t]
        /\ nCycles = 1
        /\ index # <<>>

\* C13: the interval the plugin holds is at least one minute, and so is
\* the interval of the LinkFetcherThread it holds.
C13_IntervalAtLeastOne ==
    /\ cache_length >= 1
    /\ interval[cur] >= 60

\* C14: every transformed record shows the title, or the url when the title
\* is empty, with the star prefix exactly when is_marked; its filter string
\* is url, title and the comma-joined labels separated by commas, so an empty
\* title leaves two adjacent commas after the url; equal inputs give equal
\* outputs.
C14_Transform ==
    \A i \in 1..Len(index_items) :
        LET e == index_items[i]
            b == e.link
            shown == IF b.title = <<>> THEN b.url ELSE b.title
            n == Len(b.url)
        IN  /\ e.item.text = IF b.is_marked THEN Star \o shown ELSE shown
            /\ SubSeq(e.string, 1, n + 1) = b.url \o Comma
            /\ SubSeq(e.string, n + 2, n + 2 + Len(b.title)) = b.title \o Comma
            /\ Len(e.string) >= n + 2 + Len(b.title)
            /\ SubSeq(e.string, n + 3 + Len(b.title), Len(e.string))
                   = Join(Comma, b.labels)
            /\ (b.title = <<>> => SubSeq(e.string, n + 1, n + 2) = <<",", ",">>)
            /\ \A j \in 1..Len(index_items) :
                   index_items[j].link = b => index_items[j] = e

C14_Witness ==
    \E i \in 1..Len(index_items) :
        /\ index_items[i].link = [title |-> <<>>, url |-> <<"u">>,
                                  labels |-> <<<<"a", 1>>, <<"a", 2>>>>,
                                  is_marked |-> TRUE]
        /\ index_items[i].item.text = <<"*", " ", "u">>
        /\ index_items[i].string = <<"u", ",", ",", "a", 1, ",", "a", 2>>

\* C15: the pager terminates. A page step of a pagination either ends it or
\* issues one more request and strictly increases the offset, which stays
\* within the total while the pagination goes on; the total does not change
\* once captured; a failed page ends the pagination. So a pagination issues
\* at most total / limit + 1 requests.
C15_PagerTerminates ==
    /\ [][\A c \in Ctx :
            LET l == cyc[c]
                m == cyc'[c]
            IN  (l.phase = "page" /\ m # l) =>
                  \/ m.phase # "page"
                  \/ /\ ~m.failed
                     /\ m.offset > l.offset
                     /\ m.offset <= m.total
                     /\ Len(m.requests) = Len(l.requests) + 1
                     /\ (l.response_headers => m.total = l.total)]_vars
    /\ [](\A c \in Ctx :
            cyc[c].response_headers =>
                Len(cyc[c].requests) <= (cyc[c].total \div limit) + 1)

\* C15 witness: a pagination went on after a successful page and was then
\* ended by a failed page.
C15_Witness ==
    \E c \in Ctx :
        /\ cyc[c].phase = "replace"
        /\ cyc[c].failed
        /\ Len(cyc[c].requests) = 2

\* C16: the number of page requests of a pagination that ended without a
\* failure is the one the total of its first successful page gives, whatever
\* totals its later pages reported.
C16_TotalFromFirstPage ==
    \A c \in Ctx :
        (PagedAll(c) /\ cyc[c].first # NoTotal) =>
            /\ cyc[c].total = cyc[c].first
            /\ cyc[c].requests = ExpectedOffsets(cyc[c].first)

\* C16 witness: a pagination ended without a failure after a later page
\* reported another total than the first one.
C16_Witness ==
    \E c \in Ctx : PagedAll(c) /\ cyc[c].shifted /\ cyc[c].first = MaxTotal

\* C17: all page requests of one refresh cycle go to one instance url and
\* carry one api key, whatever the setters do while the cycle paginates.
C17_OneConfigPerCycle ==
    \A c \in Ctx :
        /\ Cardinality(cyc[c].urls) <= 1
        /\ Cardinality(cyc[c].keys) <= 1

\* C18: while no refresh cycle is running the shared accumulator is empty,
\* however the earlier cycles ended, so the next cycle begins with an empty
\* accumulator.
C18_EmptyBetweenCycles ==
    (\A c \in Ctx : cyc[c].phase = "none") => index_items = <<>>

\* the first 2xx page of the pagination of context c had no Total-Count
NoTotalCount(c) == cyc[c].fetched # <<>> /\ cyc[c].first = NoTotal

\* the pager's side of C19: without a Total-Count the total stays 1 and the
\* request at offset 0 is the only one
C19_PagerOnly ==
    \A c \in Ctx :
        (NoTotalCount(c) /\ cyc[c].phase # "page") =>
            cyc[c].total = 1 /\ cyc[c].requests = <<0>>

\* C19: when the first successful page has no Total-Count header, the total
\* is 1, the request at offset 0 is the only one, and the generation the
\* cycle installs holds the links of that page and no other.
C19_NoTotalOnePage ==
    \A c \in Ctx :
        (NoTotalCount(c) /\ Replaced(c)) =>
            /\ cyc[c].total = 1
            /\ cyc[c].requests = <<0>>
            /\ cyc[c].batch = Payload(cyc[c].id, 0, MaxPageRecs)

====
